---- MODULE Spec2Model ----
(***************************************************************************)
(* A model of the pm package manager (Kotikov57/pm): the version algebra   *)
(* and the recursive installer of internal/updater/updater.go.             *)
(*                                                                         *)
(* Text is modelled as a sequence of one-character strings, so that        *)
(* parsing (ParseVersion, ParseConstraint) is computed character by        *)
(* character as the code does.                                             *)
(***************************************************************************)
EXTENDS Integers, Sequences, FiniteSets, TLC

VARIABLES pc, err, listing, requested, manifests, available, installed,
          results, stack, returned, downloaded, extracted, probe

vars == <<pc, err, listing, requested, manifests, available, installed,
          results, stack, returned, downloaded, extracted, probe>>

updateVars == <<pc, err, listing, requested, manifests, available, installed,
                results, stack, returned, downloaded, extracted>>

(***************************************************************************)
(* Bounds of the model.                                                    *)
(***************************************************************************)
\* most segments of a pattern or a path handed to matchPattern on its own
MaxSegs == 3
\* most exclude entries handed to shouldExclude on its own
MaxExcludes == 2
\* most targets of a package spec
MaxTargets == 2
\* latest reading of the clock during one build
MaxClock == 2
\* longest text handed to ParseVersion / ParseConstraint on their own
MaxTextLen == 4
\* most components of a version handed to Compare on its own
MaxVerLen == 3
\* most candidates handed to sortPackages / selectVersion on their own
MaxCands == 3
\* most dependencies an update spec requests
MaxRequested == 2
\* most dependency declarations read during one Update run
\* (the requested list plus the manifests of the packages installed)
MaxEdges == 3

(***************************************************************************)
(* Text helpers: strings.TrimSpace, strings.Split, strings.HasPrefix,      *)
(* strconv.Atoi.                                                           *)
(***************************************************************************)
Digits == <<"0", "1", "2", "3", "4", "5", "6", "7", "8", "9">>

IsDigit(c) == \E i \in 1..Len(Digits) : Digits[i] = c

DigitVal(c) == (CHOOSE i \in 1..Len(Digits) : Digits[i] = c) - 1

IsSpace(c) == c = " "

RECURSIVE TrimLeft(_)
TrimLeft(s) ==
    IF s # <<>> /\ IsSpace(Head(s)) THEN TrimLeft(Tail(s)) ELSE s

RECURSIVE TrimRight(_)
TrimRight(s) ==
    IF s # <<>> /\ IsSpace(s[Len(s)])
    THEN TrimRight(SubSeq(s, 1, Len(s) - 1))
    ELSE s

TrimSpace(s) == TrimRight(TrimLeft(s))

HasPrefix(s, p) == Len(s) >= Len(p) /\ SubSeq(s, 1, Len(p)) = p

\* strings.Split(s, "."): the segments between the dots; never empty
RECURSIVE Split(_)
Split(s) ==
    IF \E i \in 1..Len(s) : s[i] = "."
    THEN LET i == CHOOSE k \in 1..Len(s) :
                      s[k] = "." /\ \A j \in 1..(k - 1) : s[j] # "."
         IN  <<SubSeq(s, 1, i - 1)>> \o Split(SubSeq(s, i + 1, Len(s)))
    ELSE <<s>>

RECURSIVE DecVal(_)
DecVal(d) ==
    IF d = <<>> THEN 0
    ELSE DecVal(SubSeq(d, 1, Len(d) - 1)) * 10 + DigitVal(d[Len(d)])

\* strconv.Atoi: an optional sign, then one or more decimal digits
Atoi(seg) ==
    LET signed == seg # <<>> /\ seg[1] \in {"+", "-"}
        digits == IF signed THEN Tail(seg) ELSE seg
        ok     == digits # <<>> /\ \A i \in 1..Len(digits) : IsDigit(digits[i])
    IN  [ok    |-> ok,
         value |-> IF ~ok THEN 0
                   ELSE IF seg[1] = "-" THEN 0 - DecVal(digits)
                   ELSE DecVal(digits)]

(***************************************************************************)
(* Version: ParseVersion, Compare, GreaterThan, String.                    *)
(***************************************************************************)
NoVersion == [ok |-> FALSE, parts |-> <<>>, original |-> <<>>]

ParseVersion(s) ==
    IF s = <<>> THEN NoVersion
    ELSE LET segments == Split(s)
             parsed   == [i \in 1..Len(segments) |->
                              Atoi(TrimSpace(segments[i]))]
         IN  IF \A i \in 1..Len(segments) : parsed[i].ok
             THEN [ok |-> TRUE,
                   parts |-> [i \in 1..Len(segments) |-> parsed[i].value],
                   original |-> s]
             ELSE NoVersion

Max(x, y) == IF x > y THEN x ELSE y

PartAt(parts, i) == IF i <= Len(parts) THEN parts[i] ELSE 0

RECURSIVE CompareFrom(_, _, _)
CompareFrom(a, b, i) ==
    IF i > Max(Len(a), Len(b)) THEN 0
    ELSE IF PartAt(a, i) < PartAt(b, i) THEN -1
    ELSE IF PartAt(a, i) > PartAt(b, i) THEN 1
    ELSE CompareFrom(a, b, i + 1)

Min(x, y) == IF x < y THEN x ELSE y

\* Compare with the bug of stopping at the end of the shorter version
Compare_NoPadding(v, other) ==
    CompareFrom(SubSeq(v.parts, 1, Min(Len(v.parts), Len(other.parts))),
                SubSeq(other.parts, 1, Min(Len(v.parts), Len(other.parts))), 1)

Compare(v, other) == CompareFrom(v.parts, other.parts, 1)

GreaterThan(v, other) == Compare(v, other) > 0

String(v) == v.original

(***************************************************************************)
(* Constraint: ParseConstraint, Matches.                                   *)
(***************************************************************************)
\* operators with the bug of trying < and > before <= and >=
operators_ShortFirst == << <<"<">>, <<">">>, <<"<", "=">>, <<">", "=">>,
                           <<"=", "=">>, <<"=">> >>

operators == << <<"<", "=">>, <<">", "=">>, <<"<">>, <<">">>,
                <<"=", "=">>, <<"=">> >>

NoConstraint == [ok |-> FALSE, op |-> <<>>, version |-> NoVersion]

ParseConstraint(input) ==
    LET trimmed == TrimSpace(input)
        hits    == {i \in 1..Len(operators) : HasPrefix(trimmed, operators[i])}
        first   == CHOOSE i \in hits : \A j \in hits : i <= j
        op      == IF hits = {} THEN <<"=">> ELSE operators[first]
        rest    == IF hits = {} THEN trimmed
                   ELSE TrimSpace(SubSeq(trimmed, Len(operators[first]) + 1,
                                         Len(trimmed)))
        version == ParseVersion(rest)
    IN  IF trimmed = <<>> THEN NoConstraint
        ELSE IF ~version.ok THEN NoConstraint
        ELSE [ok |-> TRUE, op |-> op, version |-> version]

Matches(c, v) ==
    LET cmp == Compare(v, c.version)
    IN  CASE c.op \in {<<"=">>, <<"=", "=">>} -> cmp = 0
          [] c.op = <<">">>                   -> cmp > 0
          [] c.op = <<">", "=">>              -> cmp >= 0
          [] c.op = <<"<">>                   -> cmp < 0
          [] c.op = <<"<", "=">>              -> cmp <= 0
          [] OTHER                            -> FALSE

(***************************************************************************)
(* The remote catalog: remotePackage, sortPackages, selectVersion.         *)
(***************************************************************************)
remotePackage(name, vtext) ==
    [Name |-> name, Version |-> ParseVersion(vtext), Path |-> <<name, vtext>>]

\* all orderings of the elements of a finite set
RECURSIVE Orderings(_)
Orderings(S) ==
    IF S = {} THEN {<<>>}
    ELSE UNION {{<<x>> \o q : q \in Orderings(S \ {x})} : x \in S}

\* sortPackages with the bug of sorting ascending
sortPackages_Ascending(pkgs) ==
    {q \in Orderings(pkgs) :
        \A i, j \in 1..Len(q) :
            i < j => ~GreaterThan(q[i].Version, q[j].Version)}

\* sort.Slice with less = GreaterThan is not stable: any ordering of the
\* same packages in which no package is followed by a greater one.
sortPackages(pkgs) ==
    {q \in Orderings(pkgs) :
        \A i, j \in 1..Len(q) :
            i < j => ~GreaterThan(q[j].Version, q[i].Version)}

NoPackage == [Name |-> "", Version |-> NoVersion, Path |-> <<>>]

\* selectVersion with the bug of taking the highest candidate whatever the
\* constraint
selectVersion_IgnoresConstraint(pkgs, constraint) ==
    IF pkgs = <<>> THEN [kind |-> "panic", what |-> "index", pkg |-> NoPackage]
    ELSE [kind |-> "ok", what |-> "", pkg |-> pkgs[1]]

\* kind is "ok", "error" (an error is returned) or "panic" (pkgs[0] on an
\* empty slice, which the only caller rules out before the call)
selectVersion(pkgs, constraint) ==
    LET c     == ParseConstraint(constraint)
        hits  == {i \in 1..Len(pkgs) : Matches(c, pkgs[i].Version)}
        first == CHOOSE i \in hits : \A j \in hits : i <= j
    IN  IF constraint = <<>>
        THEN IF pkgs = <<>> THEN [kind |-> "panic", what |-> "index", pkg |-> NoPackage]
             ELSE [kind |-> "ok", what |-> "", pkg |-> pkgs[1]]
        ELSE IF ~c.ok
             THEN [kind |-> "error", what |-> "constraint", pkg |-> NoPackage]
        ELSE IF hits # {}
             THEN [kind |-> "ok", what |-> "", pkg |-> pkgs[first]]
        ELSE IF pkgs = <<>>
             THEN [kind |-> "panic", what |-> "index", pkg |-> NoPackage]
        ELSE [kind |-> "error", what |-> "noversion", pkg |-> NoPackage]

(***************************************************************************)
(* The inputs of one Update run.                                           *)
(***************************************************************************)
Names == {"a", "c", "x"}

V10 == <<"1", ".", "0">>

V20 == <<"2", ".", "0">>

\* the archives the remote directory may hold: a-1.0, c-1.0, c-2.0, x-1.0
RemoteFiles == {<<"a", V10>>, <<"c", V10>>, <<"c", V20>>, <<"x", V10>>}

\* "", "=1.0", "=2.0" and "=" (an operator with no version after it)
DepConstraints == {<<>>, <<"=">> \o V10, <<"=">> \o V20, <<"=">>}

\* config.DependencySpec
Dependencies == [Name : Names, Version : DepConstraints]

SeqsUpTo(S, n) == UNION {[1..k -> S] : k \in 0..n}

\* what an archive holds for the installer: whether it has a manifest.json
\* and the dependencies that manifest declares
ArchiveManifests(room) ==
    {[present |-> FALSE, deps |-> <<>>]}
        \cup {[present |-> TRUE, deps |-> d] : d \in SeqsUpTo(Dependencies, room)}

Nil == <<"nil">>

Idle == [fn |-> "idle"]

RECURSIVE SumLen(_, _)
SumLen(f, S) ==
    IF S = {} THEN 0
    ELSE LET k == CHOOSE k \in S : TRUE
         IN  Len(f[k].deps) + SumLen(f, S \ {k})

\* dependency declarations read so far in this run
EdgesUsed == Len(requested) + SumLen(manifests, DOMAIN manifests)

Init ==
    /\ pc = "start"
    /\ err = "none"
    /\ listing \in SUBSET RemoteFiles
    /\ requested \in SeqsUpTo(Dependencies, MaxRequested) \ {<<>>}
    /\ manifests = <<>>
    /\ available = [n \in Names |-> <<>>]
    /\ installed = <<>>
    /\ results = <<>>
    /\ stack = <<>>
    /\ returned = Nil
    /\ downloaded = <<>>
    /\ extracted = <<>>
    /\ probe = Idle

(***************************************************************************)
(* Update, lines 36-59, and installPackage, lines 337-401.  The recursion  *)
(* of installPackage is a stack of loops: each frame is the dependencies   *)
(* its loop has still to process, the lowest frame being Update's loop     *)
(* over spec.Packages.                                                     *)
(***************************************************************************)
\* UpdateFail with the bug of returning the results gathered so far
UpdateFail_ReturnsPartial(kind) ==
    /\ pc' = "done"
    /\ err' = kind
    /\ returned' = results
    /\ stack' = <<>>

\* return nil, err: every caller on the stack returns the error at once
UpdateFail(kind) ==
    /\ pc' = "done"
    /\ err' = kind
    /\ returned' = Nil
    /\ stack' = <<>>

\* lines 76-90: the listed files whose names parse as <name>-<version>
listRemoteArchives ==
    {p \in {remotePackage(e[1], e[2]) : e \in listing} : p.Version.ok}

\* lines 42-49: the packages of each name, sorted; no package, no entry
\* (an empty slice on lookup)
RECURSIVE GroupAndSort(_, _)
GroupAndSort(entries, names) ==
    IF names = {} THEN {<<>>}
    ELSE LET n == CHOOSE k \in names : TRUE
         IN  {(n :> q) @@ f :
                 q \in sortPackages({p \in entries : p.Name = n}),
                 f \in GroupAndSort(entries, names \ {n})}

\* listRemoteArchives fails
ListFail ==
    /\ pc = "start"
    /\ UpdateFail("transport")
    /\ UNCHANGED <<listing, requested, manifests, available, installed,
                   results, downloaded, extracted, probe>>

\* lines 37-52: list, group by name, sort each group
ListOK ==
    /\ pc = "start"
    /\ available' \in GroupAndSort(listRemoteArchives, Names)
    /\ installed' = <<>>
    /\ results' = <<>>
    /\ stack' = <<requested>>
    /\ pc' = "run"
    /\ UNCHANGED <<err, listing, requested, manifests, returned, downloaded,
                   extracted, probe>>

Calling == pc = "run" /\ stack # <<>> /\ stack[Len(stack)] # <<>>

\* the dependency the innermost loop hands to installPackage
dep == Head(stack[Len(stack)])

\* the loops once the call for dep has returned nil
Advanced == [stack EXCEPT ![Len(stack)] = Tail(@)]

\* IsInstalled with the bug of never looking the name up
IsInstalled_Forgets(name) == FALSE

IsInstalled(name) == name \in DOMAIN installed

\* Satisfied with the bug of accepting only the empty constraint
Satisfied_OnlyEmpty(d) == d.Version = <<>>

\* lines 339-348: an installed package satisfies the dependency
Satisfied(d) ==
    \/ d.Version = <<>>
    \/ /\ ParseConstraint(d.Version).ok
       /\ Matches(ParseConstraint(d.Version), installed[d.Name])

\* lines 338-348: already installed and satisfied: return nil
InstallSatisfied ==
    /\ Calling
    /\ IsInstalled(dep.Name)
    /\ Satisfied(dep)
    /\ stack' = Advanced
    /\ UNCHANGED <<pc, err, listing, requested, manifests, available,
                   installed, results, returned, downloaded, extracted, probe>>

\* lines 342-345: already installed, the constraint does not parse
InstallBadConstraint ==
    /\ Calling
    /\ IsInstalled(dep.Name)
    /\ dep.Version # <<>>
    /\ ~ParseConstraint(dep.Version).ok
    /\ UpdateFail("constraint")
    /\ UNCHANGED <<listing, requested, manifests, available, installed,
                   results, downloaded, extracted, probe>>

\* InstallConflict with the bug of going on instead of failing
InstallConflict_Ignored ==
    /\ pc = "run" /\ stack # <<>> /\ stack[Len(stack)] # <<>>
    /\ dep.Name \in DOMAIN installed
    /\ dep.Version # <<>>
    /\ ParseConstraint(dep.Version).ok
    /\ ~Matches(ParseConstraint(dep.Version), installed[dep.Name])
    /\ stack' = Advanced
    /\ UNCHANGED <<pc, err, listing, requested, manifests, available,
                   installed, results, returned, downloaded, extracted, probe>>

\* line 349: already installed with a version the constraint rejects
InstallConflict ==
    /\ Calling
    /\ IsInstalled(dep.Name)
    /\ ~Satisfied(dep)
    /\ ParseConstraint(dep.Version).ok
    /\ UpdateFail("conflict")
    /\ UNCHANGED <<listing, requested, manifests, available, installed,
                   results, downloaded, extracted, probe>>

candidates == available[dep.Name]

\* lines 352-355
InstallNotFound ==
    /\ Calling
    /\ ~IsInstalled(dep.Name)
    /\ Len(candidates) = 0
    /\ UpdateFail("notfound")
    /\ UNCHANGED <<listing, requested, manifests, available, installed,
                   results, downloaded, extracted, probe>>

selected == selectVersion(candidates, dep.Version)

\* lines 357-360
InstallSelectFail ==
    /\ Calling
    /\ ~IsInstalled(dep.Name)
    /\ Len(candidates) # 0
    /\ selected.kind = "error"
    /\ UpdateFail(selected.what)
    /\ UNCHANGED <<listing, requested, manifests, available, installed,
                   results, downloaded, extracted, probe>>

Selecting ==
    /\ Calling
    /\ ~IsInstalled(dep.Name)
    /\ Len(candidates) # 0
    /\ selected.kind = "ok"

\* lines 362-365: sshcmd.DownloadFile fails
InstallDownloadFail ==
    /\ Selecting
    /\ UpdateFail("transport")
    /\ UNCHANGED <<listing, requested, manifests, available, installed,
                   results, downloaded, extracted, probe>>

\* lines 371-373: the archive is downloaded, extractArchive fails
InstallExtractFail ==
    /\ Selecting
    /\ downloaded' = Append(downloaded, selected.pkg.Path)
    /\ UpdateFail("io")
    /\ UNCHANGED <<listing, requested, manifests, available, installed,
                   results, extracted, probe>>

\* lines 375-378: the archive is extracted, ensureManifestUnique fails
InstallManifestFail ==
    /\ Selecting
    /\ downloaded' = Append(downloaded, selected.pkg.Path)
    /\ extracted' = Append(extracted, selected.pkg.Path)
    /\ UpdateFail("io")
    /\ UNCHANGED <<listing, requested, manifests, available, installed,
                   results, probe>>

\* the manifest of the archive at path: as read before in this run, or any
\* manifest the bound leaves room for
ManifestOf(path) ==
    IF path \in DOMAIN manifests THEN {manifests[path]}
    ELSE ArchiveManifests(MaxEdges - EdgesUsed)

LowerCase == {"a", "b", "c", "d", "e", "f", "g", "h", "i", "j", "k", "l", "m",
              "n", "o", "p", "q", "r", "s", "t", "u", "v", "w", "x", "y", "z"}

UpperCase == {"A", "B", "C", "D", "E", "F", "G", "H", "I", "J", "K", "L", "M",
              "N", "O", "P", "Q", "R", "S", "T", "U", "V", "W", "X", "Y", "Z"}

\* lines 316-331: letters, digits, "-", "_" and "." are kept, any other
\* character becomes "_"
sanitize(input) ==
    [i \in 1..Len(input) |->
        IF \/ input[i] \in LowerCase
           \/ input[i] \in UpperCase
           \/ IsDigit(input[i])
           \/ input[i] \in {"-", "_", "."}
        THEN input[i]
        ELSE "_"]

\* line 334: "manifest-%s-%s.json"
manifestFilename(pkgName, version) ==
    <<"m", "a", "n", "i", "f", "e", "s", "t", "-">> \o sanitize(pkgName)
        \o <<"-">> \o sanitize(version) \o <<".", "j", "s", "o", "n">>

\* line 375: "" when the archive held no manifest.json
ensureManifestUnique(m, pkgName, version) ==
    IF m.present THEN manifestFilename(pkgName, version) ELSE <<>>

\* Result with the bug of reporting the requested constraint in place of the
\* selected version
Result_Requested(p, m) ==
    [PackageName |-> dep.Name,
     Version     |-> dep.Version,
     ArchivePath |-> p.Path,
     Manifest    |-> <<>>]

\* lines 382-388; every name of Names is one character long, so the text of
\* dep.Name is <<dep.Name>>
Result(p, m) ==
    [PackageName |-> dep.Name,
     Version     |-> String(p.Version),
     ArchivePath |-> p.Path,
     Manifest    |-> ensureManifestUnique(m, <<dep.Name>>, String(p.Version))]

\* Record with the bug of not entering the package in the installed set
Record_NotEntered(p, m) ==
    /\ downloaded' = Append(downloaded, p.Path)
    /\ extracted' = Append(extracted, p.Path)
    /\ manifests' = (p.Path :> m) @@ manifests
    /\ installed' = installed
    /\ results' = Append(results, Result(p, m))

\* lines 380-389: record the version, append the Result
Record(p, m) ==
    /\ downloaded' = Append(downloaded, p.Path)
    /\ extracted' = Append(extracted, p.Path)
    /\ manifests' = (p.Path :> m) @@ manifests
    /\ installed' = (dep.Name :> p.Version) @@ installed
    /\ results' = Append(results, Result(p, m))

\* lines 391-394: installed and recorded, the renamed manifest cannot be
\* read or is not JSON
InstallLoadFail ==
    /\ Selecting
    /\ Record(selected.pkg, [present |-> TRUE, deps |-> <<>>])
    /\ UpdateFail("manifest")
    /\ UNCHANGED <<listing, requested, available, probe>>

\* Enter with the bug of queueing the manifest's dependencies behind the
\* caller's remaining ones (a work list instead of the recursion)
Enter_Queued(deps) == [Advanced EXCEPT ![Len(stack)] = @ \o deps]

\* lines 395-399: the loop over the manifest's dependencies runs to its end
\* before the caller's loop goes on
Enter(deps) == Append(Advanced, deps)

\* lines 362-399: download, extract, record, and enter the loop over the
\* manifest's dependencies
InstallNew ==
    /\ Selecting
    /\ \E m \in ManifestOf(selected.pkg.Path) :
          /\ Record(selected.pkg, m)
          /\ stack' = Enter(m.deps)
    /\ UNCHANGED <<pc, err, listing, requested, available, returned, probe>>

\* line 400: the loop over a manifest's dependencies is over: return nil
InstallReturn ==
    /\ pc = "run"
    /\ Len(stack) > 1
    /\ stack[Len(stack)] = <<>>
    /\ stack' = SubSeq(stack, 1, Len(stack) - 1)
    /\ UNCHANGED <<pc, err, listing, requested, manifests, available,
                   installed, results, returned, downloaded, extracted, probe>>

\* line 58: return results, nil
UpdateReturn ==
    /\ pc = "run"
    /\ Len(stack) = 1
    /\ stack[1] = <<>>
    /\ pc' = "done"
    /\ returned' = results
    /\ stack' = <<>>
    /\ UNCHANGED <<err, listing, requested, manifests, available, installed,
                   results, downloaded, extracted, probe>>

Next ==
    \/ ListFail
    \/ ListOK
    \/ InstallSatisfied
    \/ InstallBadConstraint
    \/ InstallConflict
    \/ InstallNotFound
    \/ InstallSelectFail
    \/ InstallDownloadFail
    \/ InstallExtractFail
    \/ InstallManifestFail
    \/ InstallLoadFail
    \/ InstallNew
    \/ InstallReturn
    \/ UpdateReturn

Spec == Init /\ [][Next]_vars

(***************************************************************************)
(* The version algebra on its own: each behaviour applies one function of  *)
(* updater.go to one input drawn from a bounded set.                       *)
(***************************************************************************)
TextsOver(chars, n) == SeqsUpTo(chars, n)

VersionChars == {"1", "5", ".", "-", "+", " ", "x"}

ConstraintChars == {"<", ">", "=", "1", "2", ".", " "}

PartValues == {0, 1, 2, 9, 10}

VersionOf(parts) == [ok |-> TRUE, parts |-> parts, original |-> <<>>]

\* the versions Compare and Matches are applied to
Versions == {VersionOf(q) : q \in SeqsUpTo(PartValues, MaxVerLen) \ {<<>>}}

SmallVersions == {VersionOf(q) : q \in SeqsUpTo({0, 1, 2}, 2) \ {<<>>}}

V100 == <<"1", ".", "0", ".", "0">>

V120 == <<"1", ".", "2", ".", "0">>

V150 == <<"1", ".", "5", ".", "0">>

V200 == <<"2", ".", "0", ".", "0">>

\* libfoo-1.0.0, libfoo-1.2.0, libfoo-2.0.0, and libfoo-1.0, equal to 1.0.0
CandidateFiles == {<<"libfoo", t>> : t \in {V100, V120, V200, V10}}

SelectConstraints ==
    {<<>>, <<"=">>, <<"x">>}
        \cup {op \o t : op \in {operators[i] : i \in 1..Len(operators)} \cup {<<>>},
                        t \in {V100, V120, V150, V200, V10}}

InitVersion ==
    /\ pc = "probe"
    /\ err = "none"
    /\ listing = {}
    /\ requested = <<>>
    /\ manifests = <<>>
    /\ available = [n \in Names |-> <<>>]
    /\ installed = <<>>
    /\ results = <<>>
    /\ stack = <<>>
    /\ returned = Nil
    /\ downloaded = <<>>
    /\ extracted = <<>>
    /\ probe = Idle

ProbeParseVersion ==
    /\ pc = "probe"
    /\ probe = Idle
    /\ \E t \in TextsOver(VersionChars, MaxTextLen) :
          probe' = [fn |-> "ParseVersion", text |-> t, out |-> ParseVersion(t)]
    /\ UNCHANGED updateVars

ProbeCompare ==
    /\ pc = "probe"
    /\ probe = Idle
    /\ \E a \in Versions, b \in Versions :
          probe' = [fn |-> "Compare", a |-> a, b |-> b,
                    out |-> Compare(a, b), rev |-> Compare(b, a),
                    self |-> Compare(a, a)]
    /\ UNCHANGED updateVars

\* ParseConstraint, then Matches against each of a few versions
ProbeConstraint ==
    /\ pc = "probe"
    /\ probe = Idle
    /\ \E t \in TextsOver(ConstraintChars, MaxTextLen) :
          LET c == ParseConstraint(t)
          IN  probe' = [fn |-> "ParseConstraint", text |-> t, out |-> c,
                        matches |-> [v \in SmallVersions |->
                                        c.ok /\ Matches(c, v)]]
    /\ UNCHANGED updateVars

ProbeSort ==
    /\ pc = "probe"
    /\ probe = Idle
    /\ \E files \in SUBSET CandidateFiles :
          /\ files # {}
          /\ Cardinality(files) <= MaxCands
          /\ \E q \in sortPackages({remotePackage(f[1], f[2]) : f \in files}) :
                probe' = [fn |-> "sortPackages", pkgs |-> q]
    /\ UNCHANGED updateVars

ProbeSelect ==
    /\ pc = "probe"
    /\ probe.fn = "sortPackages"
    /\ \E t \in SelectConstraints :
          probe' = [fn |-> "selectVersion", pkgs |-> probe.pkgs,
                    constraint |-> t, out |-> selectVersion(probe.pkgs, t)]
    /\ UNCHANGED updateVars

NextVersion ==
    \/ ProbeParseVersion
    \/ ProbeCompare
    \/ ProbeConstraint
    \/ ProbeSort
    \/ ProbeSelect

SpecVersion == InitVersion /\ [][NextVersion]_vars

(***************************************************************************)
(* The destination directory: the new installs of one Update run, lines    *)
(* 362-389, with package names as text and the manifest files of the       *)
(* shared extraction directory.  probe.files maps each manifest file name  *)
(* in the directory to the archive whose manifest it holds.                *)
(***************************************************************************)
ManifestJSON == <<"m", "a", "n", "i", "f", "e", "s", "t", ".", "j", "s", "o", "n">>

\* archive names ls may list: a+b-1.0, a_b-1.0, a.b-1.0, c-1.0 and c-2.0
DestFiles ==
    {<<<<"a", "+", "b">>, V10>>, <<<<"a", "_", "b">>, V10>>,
     <<<<"a", ".", "b">>, V10>>, <<<<"c">>, V10>>, <<<<"c">>, V20>>}

Without(f, k) == [x \in DOMAIN f \ {k} |-> f[x]]

\* lines 246-294 for the member manifest.json: created or truncated
extractArchive(files, p, hasManifest) ==
    IF hasManifest THEN (ManifestJSON :> p.Path) @@ files ELSE files

\* os.Rename: target is replaced when it exists
Rename(files, src, target) ==
    IF src = target THEN files
    ELSE (target :> files[src]) @@ Without(files, src)

\* lines 296-313 on the directory: manifest.json, when there is one, is
\* renamed to manifestFilename
RenameManifest(files, pkgName, version) ==
    IF ManifestJSON \in DOMAIN files
    THEN Rename(files, ManifestJSON, manifestFilename(pkgName, version))
    ELSE files

InitDest ==
    /\ pc = "dest"
    /\ err = "none"
    /\ listing = {}
    /\ requested = <<>>
    /\ manifests = <<>>
    /\ available = [n \in Names |-> <<>>]
    /\ installed = <<>>
    /\ results = <<>>
    /\ stack = <<>>
    /\ returned = Nil
    /\ downloaded = <<>>
    /\ extracted = <<>>
    /\ probe = [fn |-> "dest", files |-> <<>>]

\* lines 338 and 362-389 for a package not yet installed: download, extract
\* into the shared directory, rename the manifest, record
InstallInto ==
    /\ pc = "dest"
    /\ \E f \in DestFiles, hasManifest \in BOOLEAN :
          LET p       == remotePackage(f[1], f[2])
              unpacked == extractArchive(probe.files, p, hasManifest)
          IN  /\ p.Name \notin DOMAIN installed
              /\ downloaded' = Append(downloaded, p.Path)
              /\ extracted' = Append(extracted, p.Path)
              /\ probe' = [probe EXCEPT !.files =
                              RenameManifest(unpacked, p.Name, String(p.Version))]
              /\ installed' = (p.Name :> p.Version) @@ installed
              /\ results' = Append(results,
                     [PackageName |-> p.Name,
                      Version     |-> String(p.Version),
                      ArchivePath |-> p.Path,
                      Manifest    |-> ensureManifestUnique(
                                         [present |-> ManifestJSON \in DOMAIN unpacked],
                                         p.Name, String(p.Version))])
    /\ UNCHANGED <<pc, err, listing, requested, manifests, available, stack,
                   returned>>

NextDest == InstallInto

SpecDest == InitDest /\ [][NextDest]_vars

(***************************************************************************)
(* The packager: matchPattern, matchSegments, shouldExclude, globMatches,  *)
(* collectFiles, writeArchive and Create.  Paths and patterns are text;    *)
(* the separator is "/" (filepath.ToSlash changes nothing).  A working     *)
(* directory is the set of the relative paths of its files: WalkDir skips  *)
(* the directories.                                                        *)
(***************************************************************************)
\* strings.Split(s, sep) for a separator of one character
RECURSIVE SplitOn(_, _)
SplitOn(s, sep) ==
    IF \E i \in 1..Len(s) : s[i] = sep
    THEN LET i == CHOOSE k \in 1..Len(s) :
                      s[k] = sep /\ \A j \in 1..(k - 1) : s[j] # sep
         IN  <<SubSeq(s, 1, i - 1)>> \o SplitOn(SubSeq(s, i + 1, Len(s)), sep)
    ELSE <<s>>

Contains(s, c) == \E i \in 1..Len(s) : s[i] = c

\* strings.TrimPrefix
TrimPrefix(s, prefix) ==
    IF HasPrefix(s, prefix) THEN SubSeq(s, Len(prefix) + 1, Len(s)) ELSE s

\* path.Match for patterns of "*", "?" and plain characters (no class, no
\* escape): "*" is any run of characters other than "/", "?" any one
\* character other than "/"
RECURSIVE Match(_, _)
Match(pattern, name) ==
    IF pattern = <<>> THEN name = <<>>
    ELSE IF Head(pattern) = "*"
         THEN \E k \in 0..Len(name) :
                 /\ \A i \in 1..k : name[i] # "/"
                 /\ Match(Tail(pattern), SubSeq(name, k + 1, Len(name)))
    ELSE /\ name # <<>>
         /\ \/ Head(pattern) = "?" /\ Head(name) # "/"
            \/ Head(pattern) # "?" /\ Head(pattern) = Head(name)
         /\ Match(Tail(pattern), Tail(name))

StarStar == <<"*", "*">>

\* matchSegments with the bug of "**" taking at least one segment
RECURSIVE matchSegments_OneOrMore(_, _)
matchSegments_OneOrMore(patternSegs, targetSegs) ==
    IF patternSegs = <<>> THEN targetSegs = <<>>
    ELSE IF Head(patternSegs) = StarStar
         THEN \E i \in 0..(Len(targetSegs) - 1) :
                 \/ matchSegments_OneOrMore(Tail(patternSegs),
                        SubSeq(targetSegs, i + 2, Len(targetSegs)))
    ELSE IF targetSegs = <<>> THEN FALSE
    ELSE /\ Match(Head(patternSegs), Head(targetSegs))
         /\ matchSegments_OneOrMore(Tail(patternSegs), Tail(targetSegs))

\* lines 155-181
RECURSIVE matchSegments(_, _)
matchSegments(patternSegs, targetSegs) ==
    IF patternSegs = <<>> THEN targetSegs = <<>>
    ELSE IF Head(patternSegs) = StarStar
         THEN \/ matchSegments(Tail(patternSegs), targetSegs)
              \/ \E i \in 0..(Len(targetSegs) - 1) :
                    matchSegments(patternSegs,
                                  SubSeq(targetSegs, i + 2, Len(targetSegs)))
    ELSE IF targetSegs = <<>> THEN FALSE
    ELSE /\ Match(Head(patternSegs), Head(targetSegs))
         /\ matchSegments(Tail(patternSegs), Tail(targetSegs))

\* lines 142-153
matchPattern(pattern, target) ==
    IF pattern = <<>> THEN target = <<>>
    ELSE matchSegments(SplitOn(pattern, "/"), SplitOn(target, "/"))

\* filepath.Base of a relative file path: its last element
Base(relPath) ==
    LET segs == SplitOn(relPath, "/") IN segs[Len(segs)]

\* shouldExclude with the bug of matching every entry against the full path
shouldExclude_FullPath(relPath, patterns) ==
    \E i \in 1..Len(patterns) : matchPattern(patterns[i], relPath)

\* lines 98-111
shouldExclude(relPath, patterns) ==
    \E i \in 1..Len(patterns) :
        IF Contains(patterns[i], "/")
        THEN matchPattern(patterns[i], relPath)
        ELSE Match(patterns[i], Base(relPath))

\* the characters of the model in the order of their codes
Ascii ==
    <<" ", "*", "+", "-", ".", "/",
      "0", "1", "2", "3", "4", "5", "6", "7", "8", "9", "<", "=", ">", "?",
      "A", "B", "C", "D", "E", "F", "G", "H", "I", "J", "K", "L", "M",
      "N", "O", "P", "Q", "R", "S", "T", "U", "V", "W", "X", "Y", "Z", "_",
      "a", "b", "c", "d", "e", "f", "g", "h", "i", "j", "k", "l", "m",
      "n", "o", "p", "q", "r", "s", "t", "u", "v", "w", "x", "y", "z">>

Codes == [c \in {Ascii[i] : i \in 1..Len(Ascii)} |->
             CHOOSE i \in 1..Len(Ascii) : Ascii[i] = c]

Code(c) == Codes[c]

\* the order of WalkDir (the entries of each directory by name) is the order
\* of the paths with "/" before every other character
WalkCode(c) == IF c = "/" THEN 0 ELSE Code(c)

\* a < b for Go strings; with walk, in the order of WalkDir
Less(a, b, walk) ==
    \E k \in 1..(Min(Len(a), Len(b)) + 1) :
        /\ \A i \in 1..(k - 1) : a[i] = b[i]
        /\ k <= Len(b)
        /\ k <= Len(a) =>
              IF walk THEN WalkCode(a[k]) < WalkCode(b[k])
              ELSE Code(a[k]) < Code(b[k])

\* the files of a directory in the order WalkDir visits them
RECURSIVE WalkDir(_)
WalkDir(tree) ==
    IF tree = {} THEN <<>>
    ELSE LET first == CHOOSE f \in tree : \A g \in tree \ {f} : Less(f, g, TRUE)
         IN  <<first>> \o WalkDir(tree \ {first})

RECURSIVE Insert(_, _)
Insert(x, sorted) ==
    IF sorted = <<>> THEN <<x>>
    ELSE IF Less(Head(sorted), x, FALSE) THEN <<Head(sorted)>> \o Insert(x, Tail(sorted))
    ELSE <<x>> \o sorted

\* sort.Strings
RECURSIVE SortStrings(_)
SortStrings(q) ==
    IF q = <<>> THEN <<>> ELSE Insert(Head(q), SortStrings(Tail(q)))

WorkingDir == <<"/", "w">>

\* lines 113-140
globMatches(tree, baseDir, pattern) ==
    LET cleaned == TrimPrefix(TrimPrefix(pattern, <<".", "/">>), baseDir \o <<"/">>)
    IN  SelectSeq(WalkDir(tree), LAMBDA rel : matchPattern(cleaned, rel))

\* lines 79-88: the matches of one target, less the excluded and the seen
RECURSIVE AddMatches(_, _, _)
AddMatches(matches, excludes, files) ==
    IF matches = <<>> THEN files
    ELSE AddMatches(Tail(matches), excludes,
                    IF \/ shouldExclude(Head(matches), excludes)
                       \/ \E i \in 1..Len(files) : files[i] = Head(matches)
                    THEN files
                    ELSE Append(files, Head(matches)))

\* lines 72-89
RECURSIVE Collect(_, _, _, _)
Collect(targets, tree, baseDir, files) ==
    IF targets = <<>> THEN files
    ELSE Collect(Tail(targets), tree, baseDir,
                 AddMatches(globMatches(tree, baseDir, Head(targets).Pattern),
                            Head(targets).Exclude, files))

\* collectFiles with the bug of dropping a collected file that a later
\* target excludes
collectFiles_Revalidated(spec, tree, baseDir) ==
    LET all   == SortStrings(Collect(spec.Targets, tree, baseDir, <<>>))
        files == SelectSeq(all, LAMBDA f :
                    \A i \in 1..Len(spec.Targets) :
                       ~shouldExclude(f, spec.Targets[i].Exclude))
    IN  IF files = <<>> THEN [err |-> "nomatch", files |-> <<>>]
        ELSE [err |-> "none", files |-> files]

\* lines 68-96
collectFiles(spec, tree, baseDir) ==
    LET files == SortStrings(Collect(spec.Targets, tree, baseDir, <<>>))
    IN  IF files = <<>> THEN [err |-> "nomatch", files |-> <<>>]
        ELSE [err |-> "none", files |-> files]

\* lines 57-63 and 200-206
Manifest(spec, now, files) ==
    [Name |-> spec.Name, Version |-> spec.Version, CreatedAt |-> now,
     Dependencies |-> spec.Packages, Files |-> files]

\* json.MarshalIndent of a Manifest: the fields under their JSON names
MarshalManifest(m) ==
    [name |-> m.Name, version |-> m.Version, created_at |-> m.CreatedAt,
     dependencies |-> [i \in 1..Len(m.Dependencies) |->
                          [name |-> m.Dependencies[i].Name,
                           ver  |-> m.Dependencies[i].Version]],
     files |-> m.Files]

\* lines 200-247: manifest.json first, then the files in the order given
writeArchive(files, spec, now) ==
    [written  |-> TRUE,
     manifest |-> MarshalManifest(Manifest(spec, now, files)),
     members  |-> <<ManifestJSON>> \o files]

NoArchive == [written |-> FALSE, manifest |-> <<>>, members |-> <<>>]

(***************************************************************************)
(* The inputs of the packager.                                             *)
(***************************************************************************)
RECURSIVE Join(_)
Join(segs) ==
    IF segs = <<>> THEN <<>>
    ELSE IF Len(segs) = 1 THEN segs[1]
    ELSE segs[1] \o <<"/">> \o Join(Tail(segs))

PatternSegs == {StarStar, <<"*">>, <<"a">>, <<"?", "b">>}

PathSegs == {<<"a">>, <<"b">>, <<"a", "b">>}

GoA == <<"a", ".", "g", "o">>

GoB == <<"b", ".", "g", "o">>

TxtC == <<"c", ".", "t", "x", "t">>

OutTmp == <<"o", "u", "t", ".", "t", "m", "p">>

Build == <<"b", "u", "i", "l", "d">>

BuildOutTmp == Join(<<Build, OutTmp>>)

Src == <<"s", "r", "c">>

StarGo == <<"*", ".", "g", "o">>

StarTmp == <<"*", ".", "t", "m", "p">>

\* "src/**/*.go"
SrcGlob == Join(<<Src, StarStar, StarGo>>)

\* src/**/*.go against src/a.go, src/a/b.go and lib/a.go
MatchExamples ==
    {<<SrcGlob, Join(<<Src, GoA>>)>>, <<SrcGlob, Join(<<Src, <<"a">>, GoB>>)>>,
     <<SrcGlob, Join(<<<<"l", "i", "b">>, GoA>>)>>}

\* a.go, b.go, c.txt, out.tmp, build/out.tmp
TreeFiles == {GoA, GoB, TxtC, OutTmp, BuildOutTmp}

\* "*.tmp", "build/out.tmp", "build/*", "**/a.go", "a.go", "?.go"
ExcludeEntries ==
    {StarTmp, BuildOutTmp, Join(<<Build, <<"*">>>>), Join(<<StarStar, GoA>>),
     GoA, <<"?", ".", "g", "o">>}

\* "*.go", "./*.go", "**"
TargetPatterns == {StarGo, <<".", "/">> \o StarGo, StarStar}

\* config.TargetSpec
TargetSpecs ==
    [Pattern : TargetPatterns,
     Exclude : {<<>>, <<StarTmp>>, <<BuildOutTmp>>, <<GoA>>}]

\* config.PackageSpec: p 1.0, depending on c "=1.0"
PackageSpecOf(targets) ==
    [Name |-> <<"p">>, Version |-> V10, Targets |-> targets,
     Packages |-> <<[Name |-> "c", Version |-> <<"=">> \o V10]>>]

InitPack ==
    /\ pc = "pack"
    /\ err = "none"
    /\ listing = {}
    /\ requested = <<>>
    /\ manifests = <<>>
    /\ available = [n \in Names |-> <<>>]
    /\ installed = <<>>
    /\ results = <<>>
    /\ stack = <<>>
    /\ returned = Nil
    /\ downloaded = <<>>
    /\ extracted = <<>>
    /\ probe = Idle

ProbeMatch ==
    /\ pc = "pack"
    /\ probe = Idle
    /\ \E pair \in MatchExamples \cup
                     {<<Join(ps), Join(ts)>> : ps \in SeqsUpTo(PatternSegs, MaxSegs),
                                              ts \in SeqsUpTo(PathSegs, MaxSegs)} :
          probe' = [fn |-> "matchPattern", pattern |-> pair[1], target |-> pair[2],
                    out |-> matchPattern(pair[1], pair[2])]
    /\ UNCHANGED updateVars

ProbeExclude ==
    /\ pc = "pack"
    /\ probe = Idle
    /\ \E f \in TreeFiles, entries \in SeqsUpTo(ExcludeEntries, MaxExcludes) :
          probe' = [fn |-> "shouldExclude", relPath |-> f, patterns |-> entries,
                    out |-> shouldExclude(f, entries)]
    /\ UNCHANGED updateVars

\* lines 42-45: collectFiles fails: the walk fails, or no file is collected
CreateNoFiles ==
    /\ pc = "pack"
    /\ probe = Idle
    /\ \E tree \in SUBSET TreeFiles,
          targets \in SeqsUpTo(TargetSpecs, MaxTargets) \ {<<>>},
          walked \in BOOLEAN :
          LET collected == collectFiles(PackageSpecOf(targets), tree, WorkingDir)
          IN  /\ walked => collected.err # "none"
              /\ probe' = [fn |-> "Create", tree |-> tree, targets |-> targets,
                            err |-> IF walked THEN collected.err ELSE "io",
                            files |-> <<>>, returned |-> Nil,
                            archive |-> NoArchive]
    /\ UNCHANGED updateVars

\* lines 53-55: writeArchive fails, leaving whatever it had written
CreateWriteFail ==
    /\ pc = "pack"
    /\ probe = Idle
    /\ \E tree \in SUBSET TreeFiles,
          targets \in SeqsUpTo(TargetSpecs, MaxTargets) \ {<<>>} :
          LET collected == collectFiles(PackageSpecOf(targets), tree, WorkingDir)
          IN  /\ collected.err = "none"
              /\ probe' = [fn |-> "Create", tree |-> tree, targets |-> targets,
                            err |-> "io", files |-> collected.files,
                            returned |-> Nil,
                            archive |-> [NoArchive EXCEPT !.written = TRUE]]
    /\ UNCHANGED updateVars

\* lines 33-66: the files are collected, the archive is written with the
\* manifest of line 200, and the manifest of line 57 is returned; each takes
\* its own reading of the clock
Create ==
    /\ pc = "pack"
    /\ probe = Idle
    /\ \E tree \in SUBSET TreeFiles,
          targets \in SeqsUpTo(TargetSpecs, MaxTargets) \ {<<>>},
          written \in 1..MaxClock, built \in 1..MaxClock :
          LET spec      == PackageSpecOf(targets)
              collected == collectFiles(spec, tree, WorkingDir)
          IN  /\ written <= built
              /\ collected.err = "none"
              /\ probe' = [fn |-> "Create", tree |-> tree, targets |-> targets,
                            err |-> "none", files |-> collected.files,
                            returned |-> Manifest(spec, built, collected.files),
                            archive |-> writeArchive(collected.files, spec, written)]
    /\ UNCHANGED updateVars

NextPack ==
    \/ ProbeMatch
    \/ ProbeExclude
    \/ CreateNoFiles
    \/ CreateWriteFail
    \/ Create

SpecPack == InitPack /\ [][NextPack]_vars

(***************************************************************************)
(* Properties of one Update run.                                           *)
(***************************************************************************)
Range(q) == {q[i] : i \in 1..Len(q)}

NamesOf(rs) == [i \in 1..Len(rs) |-> rs[i].PackageName]

\* the errors of the transport and the file system, which no input decides
EnvErrors == {"transport", "io", "manifest"}

Dep(name, constraint) == [Name |-> name, Version |-> constraint]

EQ10 == <<"=">> \o V10

EQ20 == <<"=">> \o V20

\* C1: during a run the installed set only grows: a name once recorded
\* stays, with the version recorded for it (one version per name).
C1_InstalledOnlyGrows ==
    [][\A n \in DOMAIN installed :
           n \in DOMAIN installed' /\ installed'[n] = installed[n]]_vars

\* a run that met a second, different request for c and kept c's version
C1_Witness ==
    /\ pc = "done"
    /\ requested = <<Dep("c", EQ10), Dep("c", EQ20)>>
    /\ "c" \in DOMAIN installed
    /\ installed["c"].parts = <<1, 0>>
    /\ Len(results) = 1

\* the spec's conflict example: the root requests a and c "=2.0", a's
\* manifest depends on c "=1.0", c 1.0 itself declares nothing
ConflictExample ==
    /\ requested = <<Dep("a", <<>>), Dep("c", EQ20)>>
    /\ <<"a", V10>> \in DOMAIN manifests
    /\ manifests[<<"a", V10>>].deps = <<Dep("c", EQ10)>>
    /\ <<"c", V10>> \in DOMAIN manifests
    /\ manifests[<<"c", V10>>].deps = <<>>

\* C2: a dependency on an installed name whose non-empty constraint the
\* installed version does not match ends the run with the conflict error;
\* in the spec's example the run ends so with c 1.0 installed.
C2_ConflictAborts ==
    [][/\ ( /\ pc = "run" /\ stack # <<>> /\ stack[Len(stack)] # <<>>
            /\ dep.Name \in DOMAIN installed
            /\ dep.Version # <<>>
            /\ ParseConstraint(dep.Version).ok
            /\ ~Matches(ParseConstraint(dep.Version), installed[dep.Name]) )
          => ( /\ pc' = "done"
               /\ err' = "conflict"
               /\ returned' = Nil
               /\ installed' = installed
               /\ results' = results )
       /\ (pc' = "done" /\ ConflictExample' /\ err' \notin EnvErrors)
          => ( /\ err' = "conflict"
               /\ installed'["c"].parts = <<1, 0>>
               /\ NamesOf(results') = <<"a", "c">> )]_vars

C2_Witness ==
    /\ pc = "done"
    /\ ConflictExample
    /\ err = "conflict"
    /\ installed["c"].original = V10

\* C3: a dependency on an installed name whose constraint is empty or is
\* matched by the installed version returns nil and changes nothing but the
\* caller's position: no download, no extraction, the installed set and the
\* results as they were.
C3_SatisfiedIsNoOp ==
    [][( /\ pc = "run" /\ stack # <<>> /\ stack[Len(stack)] # <<>>
         /\ dep.Name \in DOMAIN installed
         /\ \/ dep.Version = <<>>
            \/ /\ ParseConstraint(dep.Version).ok
               /\ Matches(ParseConstraint(dep.Version), installed[dep.Name]) )
       => ( /\ pc' = "run"
            /\ err' = "none"
            /\ installed' = installed
            /\ results' = results
            /\ downloaded' = downloaded
            /\ extracted' = extracted
            /\ manifests' = manifests
            /\ stack' = [stack EXCEPT ![Len(stack)] = Tail(@)] )]_vars

\* c was requested twice, the second time with a constraint its installed
\* version matches, and the run succeeded with one Result
C3_Witness ==
    /\ pc = "done"
    /\ err = "none"
    /\ requested = <<Dep("c", <<>>), Dep("c", EQ20)>>
    /\ Len(returned) = 1
    /\ Len(downloaded) = 1

\* the dependencies declared by the manifest of the archive installed for name
DeclaredBy(name) ==
    LET r == CHOOSE r \in Range(results) : r.PackageName = name
    IN  manifests[r.ArchivePath].deps

\* the names a depth-first walk of deps installs, in pre-order, given the
\* names installed before it
RECURSIVE PreOrder(_, _)
PreOrder(deps, before) ==
    IF deps = <<>> THEN <<>>
    ELSE IF Head(deps).Name \in before THEN PreOrder(Tail(deps), before)
    ELSE LET n       == Head(deps).Name
             subtree == PreOrder(DeclaredBy(n), before \cup {n})
         IN  <<n>> \o subtree
                 \o PreOrder(Tail(deps), before \cup {n} \cup Range(subtree))

\* C4: the results of a successful run are in depth-first pre-order: each
\* package, then everything its dependencies install, in declared order,
\* before the next sibling.
C4_ResultsInPreOrder ==
    (pc = "done" /\ err = "none") =>
        NamesOf(returned) = PreOrder(requested, {})

\* a and c requested, a's manifest declares x: x comes before c
C4_Witness ==
    /\ pc = "done"
    /\ err = "none"
    /\ requested = <<Dep("a", <<>>), Dep("c", <<>>)>>
    /\ NamesOf(returned) = <<"a", "x", "c">>

\* every dependency read so far in this run
DepsRead ==
    Range(requested) \cup UNION {Range(manifests[p].deps) : p \in DOMAIN manifests}

RECURSIVE Work(_)
Work(frames) ==
    IF frames = <<>> THEN 0
    ELSE Len(Head(frames)) + 1 + Work(Tail(frames))

\* what is left of a run: its phase, the packages of the catalog not yet
\* installed, and the dependencies and returns the loops still hold
Rank ==
    << CASE pc = "start" -> 2 [] pc = "run" -> 1 [] OTHER -> 0,
       Cardinality({f[1] : f \in listing} \ DOMAIN installed),
       Work(stack) >>

LexLess(r, s) ==
    \/ r[1] < s[1]
    \/ r[1] = s[1] /\ r[2] < s[2]
    \/ r[1] = s[1] /\ r[2] = s[2] /\ r[3] < s[3]

\* a step is possible: the listing, a return, or a call of installPackage,
\* which ends in one of its returns
CanStep ==
    \/ pc = "start"
    \/ /\ pc = "run"
       /\ stack # <<>>
       /\ \/ stack[Len(stack)] = <<>>
          \/ dep.Name \in DOMAIN installed
          \/ Len(available[dep.Name]) = 0
          \/ selectVersion(available[dep.Name], dep.Version).kind \in {"ok", "error"}

\* C5: every run ends: each step brings the run closer to its end (Rank
\* falls in a well-founded order) and a run that has not ended can take a
\* step; no package gets a second Result; and a run whose dependencies all
\* name packages of the catalog, each with a constraint that is empty or
\* that the installed version satisfies, ends without error and with one
\* Result for each, whatever cycles the manifests form, unless the
\* transport or the file system fails.
C5_CyclesTerminate ==
    /\ [][LexLess(Rank', Rank)]_vars
    /\ [](pc # "done" => CanStep)
    /\ [](\A i, j \in 1..Len(results) :
             results[i].PackageName = results[j].PackageName => i = j)
    /\ []((/\ pc = "done"
           /\ err \notin EnvErrors
           /\ \A d \in DepsRead :
                 /\ \/ d.Version = <<>>
                    \/ /\ d.Name \in DOMAIN installed
                       /\ ParseConstraint(d.Version).ok
                       /\ Matches(ParseConstraint(d.Version), installed[d.Name])
                 /\ \E f \in listing : f[1] = d.Name)
          => (/\ err = "none"
              /\ \A d \in DepsRead :
                    Cardinality({i \in 1..Len(returned) :
                                    returned[i].PackageName = d.Name}) = 1))

\* x's manifest depends on x, and the run succeeded with one Result for x
C5_Witness ==
    /\ pc = "done"
    /\ err = "none"
    /\ requested = <<Dep("x", <<>>)>>
    /\ manifests[<<"x", V10>>].deps = <<Dep("x", <<>>)>>
    /\ NamesOf(returned) = <<"x">>

\* C6: an error ends the run where it is raised: Update returns no results,
\* nothing downloaded or extracted is removed, and no step follows.
C6_ErrorAborts ==
    [][/\ err' # "none" =>
            /\ pc' = "done"
            /\ returned' = Nil
            /\ Len(downloaded') >= Len(downloaded)
            /\ SubSeq(downloaded', 1, Len(downloaded)) = downloaded
            /\ Len(extracted') >= Len(extracted)
            /\ SubSeq(extracted', 1, Len(extracted)) = extracted
            /\ \A i \in 1..Len(results') :
                  \E j \in 1..Len(downloaded'), k \in 1..Len(extracted') :
                      /\ downloaded'[j] = results'[i].ArchivePath
                      /\ extracted'[k] = results'[i].ArchivePath
       /\ err # "none" => UNCHANGED vars]_vars

\* a run that failed after a package was installed
C6_Witness ==
    /\ pc = "done"
    /\ err = "notfound"
    /\ returned = Nil
    /\ Len(results) = 2
    /\ Len(extracted) = 2

\* d names an installed package whose version d's constraint admits
Closed(d) ==
    /\ d.Name \in DOMAIN installed
    /\ \/ d.Version = <<>>
       \/ /\ ParseConstraint(d.Version).ok
          /\ Matches(ParseConstraint(d.Version), installed[d.Name])

\* C16: when Update returns without error, every requested dependency and
\* every dependency declared by the manifest of an installed package names an
\* installed package whose version satisfies the dependency's constraint
\* (any version when the constraint is empty).
C16_InstalledClosed ==
    (pc = "done" /\ err = "none") =>
        /\ \A d \in Range(requested) : Closed(d)
        /\ \A n \in DOMAIN installed :
              /\ \E r \in Range(returned) : r.PackageName = n
              /\ \A d \in Range(DeclaredBy(n)) : Closed(d)

\* a succeeds, its manifest asks for c "=2.0" although c 1.0 is on offer too
C16_Witness ==
    /\ pc = "done"
    /\ err = "none"
    /\ requested = <<Dep("a", <<>>)>>
    /\ listing = RemoteFiles
    /\ manifests[<<"a", V10>>].deps = <<Dep("c", EQ20)>>
    /\ installed["c"].original = V20

\* the package names of a log of archive paths
PathNames(log) == [i \in 1..Len(log) |-> log[i][1]]

Distinct(q) == \A i, j \in 1..Len(q) : q[i] = q[j] => i = j

\* C17: at every point of a run the results and the installed set describe
\* the same packages: the names of the results are pairwise distinct, each
\* Result carries the version recorded for its name, there are as many
\* Results as installed names, and no name is downloaded or extracted twice.
C17_ResultsMatchInstalled ==
    /\ Distinct(NamesOf(results))
    /\ \A i \in 1..Len(results) :
          /\ results[i].PackageName \in DOMAIN installed
          /\ results[i].Version = String(installed[results[i].PackageName])
    /\ Len(results) = Cardinality(DOMAIN installed)
    /\ Distinct(PathNames(downloaded))
    /\ Distinct(PathNames(extracted))

\* in the middle of a run: two packages installed, a third request pending
C17_Witness ==
    /\ pc = "run"
    /\ Len(results) = 2
    /\ Cardinality(DOMAIN installed) = 2
    /\ Len(downloaded) = 2
    /\ stack # <<>>
    /\ stack[Len(stack)] # <<>>

(***************************************************************************)
(* Properties of the destination directory.                                *)
(***************************************************************************)
\* C12: each extracted manifest.json is renamed to manifestFilename of the
\* package's name and version, no two installed packages get the same
\* manifest file name, and the renamed manifest of an installed package
\* still holds that package's manifest after every later install.
C12_ManifestsNeverClobbered ==
    pc = "dest" =>
        /\ \A i \in 1..Len(results) :
              results[i].Manifest # <<>> =>
                 /\ results[i].Manifest =
                       manifestFilename(results[i].PackageName, results[i].Version)
                 /\ results[i].Manifest \in DOMAIN probe.files
                 /\ probe.files[results[i].Manifest] = results[i].ArchivePath
        /\ \A i, j \in 1..Len(results) :
              (i # j /\ results[i].Manifest # <<>>)
                 => results[i].Manifest # results[j].Manifest

(***************************************************************************)
(* Properties of the packager.                                             *)
(***************************************************************************)
\* C11: the manifest Create returns and the manifest.json written into the
\* archive of the same build agree in every field: name, version, createdAt,
\* dependencies and files.
C11_ManifestsIdentical ==
    (probe.fn = "Create" /\ probe.err = "none") =>
        /\ probe.archive.manifest.name = probe.returned.Name
        /\ probe.archive.manifest.version = probe.returned.Version
        /\ probe.archive.manifest.created_at = probe.returned.CreatedAt
        /\ probe.archive.manifest.dependencies =
              MarshalManifest(probe.returned).dependencies
        /\ probe.archive.manifest.files = probe.returned.Files

RECURSIVE SumTo(_, _)
SumTo(r, n) == IF n = 0 THEN 0 ELSE r[n] + SumTo(r, n - 1)

\* some assignment of a run of path segments to each "**", and of one path
\* segment to each other pattern segment, which that segment matches
Aligned(ps, ts) ==
    \E r \in [1..Len(ps) -> 0..Len(ts)] :
        /\ SumTo(r, Len(ps)) = Len(ts)
        /\ \A i \in 1..Len(ps) :
              ps[i] # StarStar =>
                 /\ r[i] = 1
                 /\ Match(ps[i], ts[SumTo(r, i - 1) + 1])

\* C13: matchPattern holds exactly when the segments of the pattern can be
\* aligned with the segments of the path, each "**" taking zero or more
\* whole segments; the empty pattern matches the empty path only;
\* src/**/*.go matches src/a.go and src/a/b.go and not lib/a.go.
C13_MatchIsAlignment ==
    probe.fn = "matchPattern" =>
        /\ probe.pattern = <<>> => (probe.out <=> probe.target = <<>>)
        /\ probe.pattern # <<>> =>
              (probe.out <=> Aligned(SplitOn(probe.pattern, "/"),
                                     SplitOn(probe.target, "/")))
        /\ probe.pattern = SrcGlob =>
              (probe.out <=> probe.target \in {Join(<<Src, GoA>>),
                                               Join(<<Src, <<"a">>, GoB>>)})

\* "**" takes no segment: src/**/*.go matches src/a.go
C13_Witness ==
    /\ probe.fn = "matchPattern"
    /\ probe.pattern = SrcGlob
    /\ probe.target = Join(<<Src, GoA>>)
    /\ probe.out

\* the pattern taken relative to the working directory
Relative(pattern) ==
    LET plain == IF HasPrefix(pattern, <<".", "/">>)
                 THEN SubSeq(pattern, 3, Len(pattern)) ELSE pattern
    IN  IF HasPrefix(plain, WorkingDir \o <<"/">>)
        THEN SubSeq(plain, Len(WorkingDir) + 2, Len(plain)) ELSE plain

\* target t selects file f: its pattern matches and its excludes do not
Selects(t, f) ==
    /\ matchPattern(Relative(t.Pattern), f)
    /\ ~shouldExclude(f, t.Exclude)

Selected(tree, targets) ==
    {f \in tree : \E i \in 1..Len(targets) : Selects(targets[i], f)}

BaseName(path) ==
    LET slashes == {i \in 1..Len(path) : path[i] = "/"}
        last    == IF slashes = {} THEN 0
                   ELSE CHOOSE i \in slashes : \A j \in slashes : j <= i
    IN  SubSeq(path, last + 1, Len(path))

\* C15: a file is excluded exactly when some entry with a "/" matches its
\* full relative path under matchPattern or some entry without "/" matches
\* its base name, whatever its directory: "*.tmp" removes build/out.tmp and
\* out.tmp, "build/out.tmp" removes build/out.tmp only.
C15_ExcludeByBaseOrPath ==
    probe.fn = "shouldExclude" =>
        /\ probe.out <=>
              \E i \in 1..Len(probe.patterns) :
                 \/ /\ Contains(probe.patterns[i], "/")
                    /\ matchPattern(probe.patterns[i], probe.relPath)
                 \/ /\ ~Contains(probe.patterns[i], "/")
                    /\ Match(probe.patterns[i], BaseName(probe.relPath))
        /\ probe.patterns = <<StarTmp>> =>
              (probe.out <=> probe.relPath \in {OutTmp, BuildOutTmp})
        /\ probe.patterns = <<BuildOutTmp>> =>
              (probe.out <=> probe.relPath = BuildOutTmp)

\* "*.tmp" alone removes build/out.tmp
C15_Witness ==
    /\ probe.fn = "shouldExclude"
    /\ probe.patterns = <<StarTmp>>
    /\ probe.relPath = BuildOutTmp
    /\ probe.out

(***************************************************************************)
(* Properties of the version algebra.                                      *)
(***************************************************************************)
\* the runs of Update together with the functions applied on their own
SpecSelect == (Init \/ InitVersion) /\ [][Next \/ NextVersion]_vars

\* the candidates a constraint text admits: all when it is empty
Admitted(pkgs, constraint) ==
    {i \in 1..Len(pkgs) :
        \/ constraint = <<>>
        \/ /\ ParseConstraint(constraint).ok
           /\ Matches(ParseConstraint(constraint), pkgs[i].Version)}

\* p is a highest of the candidates the constraint admits
IsBest(p, pkgs, constraint) ==
    \E i \in Admitted(pkgs, constraint) :
        /\ p = pkgs[i]
        /\ \A j \in Admitted(pkgs, constraint) :
              Compare(p.Version, pkgs[j].Version) >= 0

OriginalsOf(pkgs) == [i \in 1..Len(pkgs) |-> pkgs[i].Version.original]

LT200 == <<"<">> \o V200

GE150 == <<">", "=">> \o V150

SelectedBest ==
    probe.fn = "selectVersion" =>
        /\ Admitted(probe.pkgs, probe.constraint) = {} => probe.out.kind = "error"
        /\ Admitted(probe.pkgs, probe.constraint) # {} =>
              /\ probe.out.kind = "ok"
              /\ IsBest(probe.out.pkg, probe.pkgs, probe.constraint)
        /\ probe.constraint = <<>> => probe.out.pkg = probe.pkgs[1]
        /\ (OriginalsOf(probe.pkgs) = <<V200, V120, V100>> /\ probe.constraint = LT200)
              => probe.out.pkg.Version.original = V120
        /\ (OriginalsOf(probe.pkgs) = <<V200, V100>> /\ probe.constraint = GE150)
              => probe.out.pkg.Version.original = V200

\* C7: over candidates sorted by sortPackages, selectVersion returns the
\* first, a highest, when the constraint is empty, else a highest candidate
\* the constraint matches, and an error when none matches; installPackage
\* installs that candidate, and fails before selecting when the name has no
\* candidates at all.
C7_SelectsHighestMatch ==
    /\ []SelectedBest
    /\ [][( /\ pc = "run" /\ stack # <<>> /\ stack[Len(stack)] # <<>>
            /\ dep.Name \notin DOMAIN installed )
          => /\ Len(available[dep.Name]) = 0 => (pc' = "done" /\ err' = "notfound")
             /\ ( /\ Len(available[dep.Name]) # 0
                  /\ Admitted(available[dep.Name], dep.Version) = {} )
                => (pc' = "done" /\ err' \in {"noversion", "constraint"})
             /\ dep.Name \in DOMAIN installed'
                => \E p \in Range(available[dep.Name]) :
                      /\ IsBest(p, available[dep.Name], dep.Version)
                      /\ installed'[dep.Name] = p.Version]_vars

\* libfoo 2.0.0, 1.2.0 and 1.0.0 with "<2.0.0": 1.2.0 is selected
C7_Witness ==
    /\ probe.fn = "selectVersion"
    /\ OriginalsOf(probe.pkgs) = <<V200, V120, V100>>
    /\ probe.constraint = LT200
    /\ probe.out.kind = "ok"
    /\ probe.out.pkg.Version.parts = <<1, 2, 0>>

Padded(parts, n) == [i \in 1..n |-> IF i <= Len(parts) THEN parts[i] ELSE 0]

\* the order of the spec: pad the shorter with zeros, the first difference
\* decides
PaddedOrder(a, b) ==
    LET n    == IF Len(a) > Len(b) THEN Len(a) ELSE Len(b)
        pa   == Padded(a, n)
        pb   == Padded(b, n)
        diff == {i \in 1..n : pa[i] # pb[i]}
        k    == CHOOSE i \in diff : \A j \in diff : i <= j
    IN  IF diff = {} THEN 0 ELSE IF pa[k] < pb[k] THEN -1 ELSE 1

\* C8: Compare(a, a) = 0, Compare(a, b) = -Compare(b, a), and Compare is the
\* zero-padded component-wise order: 1.2 = 1.2.0, 1.10 > 1.9, 2 > 1.9.9.
C8_CompareIsPaddedOrder ==
    probe.fn = "Compare" =>
        /\ probe.self = 0
        /\ probe.out = 0 - probe.rev
        /\ probe.out = PaddedOrder(probe.a.parts, probe.b.parts)
        /\ (probe.a.parts = <<1, 2>> /\ probe.b.parts = <<1, 2, 0>>) => probe.out = 0
        /\ (probe.a.parts = <<1, 10>> /\ probe.b.parts = <<1, 9>>) => probe.out = 1
        /\ (probe.a.parts = <<2>> /\ probe.b.parts = <<1, 9, 9>>) => probe.out = 1

C8_Witness ==
    /\ probe.fn = "Compare"
    /\ probe.a.parts = <<2>>
    /\ probe.b.parts = <<1, 9, 9>>
    /\ probe.out = 1
    /\ probe.rev = -1

ConstraintOps ==
    {<<"=">>, <<"=", "=">>, <<">">>, <<">", "=">>, <<"<">>, <<"<", "=">>}

\* cmp stands in relation op to 0
Holds(op, cmp) ==
    \/ op \in {<<"=">>, <<"=", "=">>} /\ cmp = 0
    \/ op = <<">">> /\ cmp > 0
    \/ op = <<">", "=">> /\ cmp >= 0
    \/ op = <<"<">> /\ cmp < 0
    \/ op = <<"<", "=">> /\ cmp <= 0

GE120 == <<">", "=">> \o V120

\* C9: for each operator op and valid version text c, the text op c parses
\* and matches v exactly when Compare(v, c) stands in relation op to 0; a
\* text without operator is an exact match on the whole trimmed text; an
\* operator with nothing after it is an error.
C9_ConstraintSemantics ==
    probe.fn = "ParseConstraint" =>
        /\ \A op \in ConstraintOps :
              ( /\ HasPrefix(probe.text, op)
                /\ ParseVersion(SubSeq(probe.text, Len(op) + 1, Len(probe.text))).ok )
              => /\ probe.out.ok
                 /\ \A v \in SmallVersions :
                       probe.matches[v] <=>
                          Holds(op, Compare(v, ParseVersion(SubSeq(probe.text,
                                                  Len(op) + 1, Len(probe.text)))))
        /\ ( /\ TrimSpace(probe.text) # <<>>
             /\ \A op \in ConstraintOps : ~HasPrefix(TrimSpace(probe.text), op) )
           => /\ probe.out.ok <=> ParseVersion(TrimSpace(probe.text)).ok
              /\ probe.out.ok =>
                    /\ probe.out.op = <<"=">>
                    /\ probe.out.version = ParseVersion(TrimSpace(probe.text))
                    /\ \A v \in SmallVersions :
                          probe.matches[v] <=> Compare(v, probe.out.version) = 0
        /\ TrimSpace(probe.text) \in ConstraintOps => ~probe.out.ok
        /\ \A q \in {<<1, 2, 0>>, <<1, 3, 0>>, <<2, 0, 0>>} :
              Matches(ParseConstraint(GE120), VersionOf(q))
        /\ ~Matches(ParseConstraint(GE120), VersionOf(<<1, 1, 9>>))

C9_Witness ==
    /\ probe.fn = "ParseConstraint"
    /\ probe.text = <<">", "=", "1">>
    /\ probe.out.ok
    /\ probe.out.op = <<">", "=">>
    /\ probe.matches[VersionOf(<<2>>)]
    /\ probe.matches[VersionOf(<<1, 0>>)]
    /\ ~probe.matches[VersionOf(<<0, 2>>)]

\* a segment that is empty, not an integer, or a negative integer
BadSegment(seg) ==
    \/ TrimSpace(seg) = <<>>
    \/ ~Atoi(TrimSpace(seg)).ok
    \/ Head(TrimSpace(seg)) = "-"

\* C10: every Version ParseVersion returns has only non-negative
\* components, and a text with an empty, a non-integer or a negative
\* segment is rejected.
C10_OnlyNonNegative ==
    probe.fn = "ParseVersion" =>
        /\ probe.out.ok => \A i \in 1..Len(probe.out.parts) : probe.out.parts[i] >= 0
        /\ (\E seg \in Range(Split(probe.text)) : BadSegment(seg)) => ~probe.out.ok

====
